---------------------------- MODULE Spec2Model ----------------------------
(***************************************************************************)
(* A model of the breadth-first crawler of                                 *)
(* extract_clarku_catalog_links.ipynb: get_domain, extract_links,          *)
(* fetch_url, extract_content and main.                                    *)
(*                                                                         *)
(* Strings are sequences of lexemes: a URL such as                         *)
(* "https://www.clarku.edu/p#f" is <<"https://","www.clarku.edu","/","p",  *)
(* "#","f">>, a text is the sequence of its characters, "a b" being        *)
(* <<"a"," ","b">>, so that Len is Python's len on texts.  The             *)
(* string operations of the code (startswith, split, strip, join, str,     *)
(* eval, urlparse) are computed on these sequences.                        *)
(*                                                                         *)
(* An HTML document is the tree html.parser builds from it: a node is a    *)
(* record [name, id, class, has_href, href, text, kids]; a text node has   *)
(* name TextNode (BeautifulSoup's .name of a NavigableString is None).     *)
(***************************************************************************)
EXTENDS Integers, Sequences, FiniteSets, TLC

VARIABLES
    web,                \* the site: canonical URL -> name of the document served
    max_urls,           \* main: max_urls
    pc,                 \* main: "start", "loop", "done" or "crashed"
    all_entries,        \* main: all_entries
    visited_urls,       \* main: visited_urls
    urls_to_visit,      \* main: urls_to_visit
    counter,            \* main: counter
    skipped_urls,       \* main: skipped_urls
    empty_content_urls, \* main: empty_content_urls
    fetch_log,          \* history: every call of fetch_url of this run, in order
    queued_log,         \* history: every URL put in the queue in this run, in order
    last_step,          \* history: what the last step of main did
    run_no,             \* history: 1 in the first run of main, 2 in a second run
    prev_entries,       \* history: all_entries at the end of the first run
    prev_log,           \* history: fetch_log at the end of the first run
    arg_html,           \* a call of extract_links / extract_content: html
    arg_base_url,       \* a call of extract_links: base_url
    ret_links,          \* what the call of extract_links returned
    ret_content         \* what the call of extract_content returned

vars == <<web, max_urls, pc, all_entries, visited_urls, urls_to_visit, counter,
          skipped_urls, empty_content_urls, fetch_log, queued_log, last_step,
          run_no, prev_entries, prev_log, arg_html, arg_base_url, ret_links,
          ret_content>>

-----------------------------------------------------------------------------
(* Strings *)

\* str.startswith(prefix)
StartsWith(s, prefix) ==
    /\ Len(s) >= Len(prefix)
    /\ SubSeq(s, 1, Len(prefix)) = prefix

\* the index of the first lexeme of s that is in stops, or Len(s) + 1
RECURSIVE FirstIn(_, _, _)
FirstIn(s, stops, i) ==
    IF i > Len(s) THEN Len(s) + 1
    ELSE IF s[i] \in stops THEN i
    ELSE FirstIn(s, stops, i + 1)

\* s.split('#')[0]
SplitFragment(s) == SubSeq(s, 1, FirstIn(s, {"#"}, 1) - 1)

\* the lexemes of s as a set
Lexemes(s) == {s[i] : i \in 1..Len(s)}

\* str.strip(): leading and trailing whitespace removed
RECURSIVE LStrip(_)
LStrip(s) == IF s # <<>> /\ Head(s) = " " THEN LStrip(Tail(s)) ELSE s

RECURSIVE RStrip(_)
RStrip(s) ==
    IF s # <<>> /\ s[Len(s)] = " " THEN RStrip(SubSeq(s, 1, Len(s) - 1)) ELSE s

Strip(s) == RStrip(LStrip(s))

\* sep.join(parts)
RECURSIVE Join(_, _)
Join(sep, parts) ==
    IF parts = <<>> THEN <<>>
    ELSE IF Len(parts) = 1 THEN parts[1]
    ELSE parts[1] \o sep \o Join(sep, Tail(parts))

\* the concatenation of a sequence of sequences
RECURSIVE Flatten(_)
Flatten(ss) == IF ss = <<>> THEN <<>> ELSE Head(ss) \o Flatten(Tail(ss))

\* the elements of a sequence as a set
Range(s) == {s[i] : i \in 1..Len(s)}

\* every ordering of a finite set, as sequences without repetition
Orderings(S) ==
    {f \in [1..Cardinality(S) -> S] : \A i, j \in 1..Cardinality(S) : f[i] = f[j] => i = j}

\* str(n) of a natural number
Digit(d) ==
    CASE d = 0 -> "0" [] d = 1 -> "1" [] d = 2 -> "2" [] d = 3 -> "3" [] d = 4 -> "4"
      [] d = 5 -> "5" [] d = 6 -> "6" [] d = 7 -> "7" [] d = 8 -> "8" [] d = 9 -> "9"

RECURSIVE StrInt(_)
StrInt(n) == IF n < 10 THEN <<Digit(n)>> ELSE StrInt(n \div 10) \o <<Digit(n % 10)>>

-----------------------------------------------------------------------------
(* URLs *)

Schemes == {"http://", "https://"}

\* urlparse(url).netloc: what follows the scheme's "//" up to the first of / ? #
Netloc(url) ==
    IF url # <<>> /\ Head(url) \in Schemes
    THEN SubSeq(Tail(url), 1, FirstIn(Tail(url), {"/", "?", "#"}, 1) - 1)
    ELSE <<>>

\* urlparse raises ValueError("Invalid IPv6 URL") on an unbalanced bracket
UrlparseRaises(url) ==
    ("[" \in Lexemes(Netloc(url))) # ("]" \in Lexemes(Netloc(url)))

get_domain(url) == Netloc(url)

\* current_url.split('#')[0]
CanonicalURL(url) == SplitFragment(url)

-----------------------------------------------------------------------------
(* HTML documents as parsed trees *)

TextNode == "#text"

Node(name, id, class, has_href, href, text, kids) ==
    [name |-> name, id |-> id, class |-> class, has_href |-> has_href,
     href |-> href, text |-> text, kids |-> kids]

\* a text node holding the string s
Txt(s) == Node(TextNode, <<>>, <<>>, FALSE, <<>>, s, <<>>)

\* an element without attributes
El(name, kids) == Node(name, <<>>, <<>>, FALSE, <<>>, <<>>, kids)

\* <div id=... class=...>
Div(id, class, kids) == Node("div", id, class, FALSE, <<>>, <<>>, kids)

\* <a href=...>
Anchor(href, kids) == Node("a", <<>>, <<>>, TRUE, href, <<>>, kids)

\* the document html.parser builds: the BeautifulSoup object
Document(kids) == El("[document]", kids)

\* the paths (child indexes from the node down) of the proper descendants of a
\* node, in document order
RECURSIVE Paths(_)
Paths(node) ==
    Flatten([i \in 1..Len(node.kids) |->
                LET below == Paths(node.kids[i])
                IN  <<<<i>>>> \o [j \in 1..Len(below) |-> <<i>> \o below[j]]])

RECURSIVE NodeAt(_, _)
NodeAt(node, path) ==
    IF path = <<>> THEN node ELSE NodeAt(node.kids[Head(path)], Tail(path))

\* node.find_all(names): the descendants whose tag is one of names
FindAll(node, names) ==
    SelectSeq(Paths(node), LAMBDA p : NodeAt(node, p).name \in names)

\* the strings below a node, in document order
RECURSIVE AllStrings(_)
AllStrings(node) ==
    IF node.name = TextNode THEN <<node.text>>
    ELSE Flatten([i \in 1..Len(node.kids) |-> AllStrings(node.kids[i])])

\* node.get_text(sep, strip=True): the stripped non-empty strings, joined
GetText(node, sep) ==
    LET strings == AllStrings(node)
    IN  Join(sep, SelectSeq([i \in 1..Len(strings) |-> Strip(strings[i])],
                            LAMBDA s : s # <<>>))

\* element.decompose() for every element whose tag is in names
RECURSIVE Decompose(_, _)
Decompose(node, names) ==
    LET kept == SelectSeq(node.kids, LAMBDA k : k.name \notin names)
    IN  [node EXCEPT !.kids = [i \in 1..Len(kept) |-> Decompose(kept[i], names)]]

-----------------------------------------------------------------------------
(* extract_links, on the parsed document *)

\* the string f"https://{domain}{href}"
ResolveRelative(domain, href) == <<"https://">> \o domain \o href

\* the href of one <a> as line 446-450 leave it, or <<>> when it is skipped
ResolvedHref(href, domain) ==
    IF StartsWith(href, <<"/">>) THEN ResolveRelative(domain, href)
    ELSE IF \E s \in Schemes : StartsWith(href, <<s>>) THEN href
    ELSE <<>>

\* the hrefs of the <a href> elements, in document order
AnchorHrefs(soup) ==
    LET as == SelectSeq(FindAll(soup, {"a"}), LAMBDA p : NodeAt(soup, p).has_href)
    IN  [i \in 1..Len(as) |-> NodeAt(soup, as[i]).href]

\* whether get_domain(href) raises for one of the hrefs of the document
HrefRaises(soup, domain) ==
    LET hrefs == AnchorHrefs(soup)
    IN  \E i \in 1..Len(hrefs) :
           LET r == ResolvedHref(hrefs[i], domain)
           IN  r # <<>> /\ UrlparseRaises(r)

\* SameDomainLinks without the test of line 453
SameDomainLinks_NoFilter(soup, domain) ==
    LET hrefs == AnchorHrefs(soup)
        rs == [i \in 1..Len(hrefs) |-> ResolvedHref(hrefs[i], domain)]
    IN  SelectSeq(rs, LAMBDA r : r # <<>>)

\* the list `links` before list(set(links))
SameDomainLinks(soup, domain) ==
    LET hrefs == AnchorHrefs(soup)
        rs == [i \in 1..Len(hrefs) |-> ResolvedHref(hrefs[i], domain)]
    IN  SelectSeq(rs, LAMBDA r : r # <<>> /\ get_domain(r) = domain)

-----------------------------------------------------------------------------
(* extract_content, on the parsed document *)

NoiseTags ==
    {"nav", "header", "footer", "script", "style", "noscript", "iframe", "svg",
     "aside", "form"}

HeadingTags == {"h1", "h2", "h3", "h4"}

\* main_content_tags; a selector without attrs has attr "" and no values
main_content_tags ==
    << [tag |-> "div", attr |-> "id",
        values |-> <<"content", "main-content", "mainContent", "main">>],
       [tag |-> "main", attr |-> "", values |-> <<>>],
       [tag |-> "article", attr |-> "", values |-> <<>>],
       [tag |-> "div", attr |-> "class",
        values |-> <<"content", "main-content", "main", "article", "post">>] >>

\* the words of an attribute of an element (x.split()); <<>> when it has none
AttrWords(node, attr) == IF attr = "id" THEN node.id ELSE node.class

\* soup.find_all(tag, {attr_name: lambda x: x and value in x.split() if x else False})
FindByAttr(soup, tag, attr, value) ==
    SelectSeq(FindAll(soup, {tag}),
              LAMBDA p : value \in Range(AttrWords(NodeAt(soup, p), attr)))

\* MaxByText as elements[0]
MaxByText_First(soup, elements) == elements[1]

\* max(elements, key=lambda e: len(e.get_text(strip=True))): the first of the
\* elements with the longest text
MaxByText(soup, elements) ==
    LET size(i) == Len(GetText(NodeAt(soup, elements[i]), <<>>))
        best == CHOOSE i \in 1..Len(elements) :
                    /\ \A j \in 1..Len(elements) : size(j) <= size(i)
                    /\ \A j \in 1..(i - 1) : size(j) < size(i)
    IN  elements[best]

\* the loop over attr_values of one selector, from the k-th value on: <<>> for
\* main_content = None, else <<path of main_content>>
RECURSIVE TryValues(_, _, _)
TryValues(soup, selector, k) ==
    IF k > Len(selector.values) THEN <<>>
    ELSE LET elements == FindByAttr(soup, selector.tag, selector.attr, selector.values[k])
         IN  IF elements # <<>> THEN <<MaxByText(soup, elements)>>
             ELSE TryValues(soup, selector, k + 1)

\* the loop over main_content_tags, from the k-th selector on; the loop over
\* attrs.items() of a selector with attrs {} has no iteration
RECURSIVE TrySelectors(_, _)
TrySelectors(soup, k) ==
    IF k > Len(main_content_tags) THEN <<>>
    ELSE LET found == IF main_content_tags[k].attr = "" THEN <<>>
                      ELSE TryValues(soup, main_content_tags[k], 1)
         IN  IF found # <<>> THEN found ELSE TrySelectors(soup, k + 1)

\* main_content, as a path of soup: the selected element, or soup.body or soup
MainContentPath(soup) ==
    LET found == TrySelectors(soup, 1)
        bodies == FindAll(soup, {"body"})
    IN  IF found # <<>> THEN found[1]
        ELSE IF bodies # <<>> THEN bodies[1]
        ELSE <<>>

\* the title: the text of the first <title>, else of the first <h1>, else ""
TitleOf(soup) ==
    LET titles == FindAll(soup, {"title"})
        h1s == FindAll(soup, {"h1"})
    IN  IF titles # <<>> THEN GetText(NodeAt(soup, titles[1]), <<>>)
        ELSE IF h1s # <<>> THEN GetText(NodeAt(soup, h1s[1]), <<>>)
        ELSE <<>>

NoContentMarker == <<"No content in this section">>

\* ContentParts without the test of line 548: all the next siblings are read
ContentParts_ToEnd(region, hp) ==
    LET parent == NodeAt(region, SubSeq(hp, 1, Len(hp) - 1))
        after == SubSeq(parent.kids, hp[Len(hp)] + 1, Len(parent.kids))
        texts == [i \in 1..Len(after) |-> GetText(after[i], <<>>)]
    IN  SelectSeq(texts, LAMBDA t : t # <<>>)

\* content_parts of the header at path hp of region: the texts of its next
\* siblings up to the next heading
ContentParts(region, hp) ==
    LET parent == NodeAt(region, SubSeq(hp, 1, Len(hp) - 1))
        after == SubSeq(parent.kids, hp[Len(hp)] + 1, Len(parent.kids))
        stop == FirstIn([i \in 1..Len(after) |-> after[i].name], HeadingTags, 1)
        texts == [i \in 1..(stop - 1) |-> GetText(after[i], <<>>)]
    IN  SelectSeq(texts, LAMBDA t : t # <<>>)

\* a section dict; a dict without the key 'header' has has_header FALSE
Section(has_header, header, text) ==
    [has_header |-> has_header, header |-> header, text |-> text]

\* the sections appended by the loop over headers
HeaderSections(region) ==
    LET headers == FindAll(region, HeadingTags)
        named == SelectSeq(headers, LAMBDA hp : GetText(NodeAt(region, hp), <<>>) # <<>>)
        body(hp) == Join(<<" ">>, ContentParts(region, hp))
    IN  [i \in 1..Len(named) |->
            Section(TRUE, GetText(NodeAt(region, named[i]), <<>>),
                    IF body(named[i]) # <<>> THEN body(named[i]) ELSE NoContentMarker)]

\* any(section.get('text') for section in sections)
AnyText(sections) == \E i \in 1..Len(sections) : sections[i].text # <<>>

\* FallbackSection without the filter of line 565: a paragraph without text is
\* joined too
FallbackSection_KeepEmpty(region) ==
    LET paragraphs == FindAll(region, {"p"})
        texts == [i \in 1..Len(paragraphs) |-> GetText(NodeAt(region, paragraphs[i]), <<>>)]
    IN  IF paragraphs # <<>>
        THEN Section(FALSE, <<>>, Join(<<" ">>, texts))
        ELSE Section(FALSE, <<>>, GetText(region, <<" ">>))

\* the section appended when there are no sections or none has text
FallbackSection(region) ==
    LET paragraphs == FindAll(region, {"p"})
        texts == [i \in 1..Len(paragraphs) |-> GetText(NodeAt(region, paragraphs[i]), <<>>)]
    IN  IF paragraphs # <<>>
        THEN Section(FALSE, <<>>, Join(<<" ">>, SelectSeq(texts, LAMBDA t : t # <<>>)))
        ELSE Section(FALSE, <<>>, GetText(region, <<" ">>))

\* the list `sections` of extract_content for a parsed document
SectionsOf(soup) ==
    LET clean == Decompose(soup, NoiseTags)
        region == NodeAt(clean, MainContentPath(clean))
        sections == HeaderSections(region)
    IN  IF sections = <<>> \/ ~AnyText(sections)
        THEN Append(sections, FallbackSection(region))
        ELSE sections

\* repr of a str
ReprStr(s) == <<"'">> \o s \o <<"'">>

\* repr of a section dict
ReprSection(sec) ==
    <<"{">> \o (IF sec.has_header THEN <<"'header':">> \o ReprStr(sec.header) \o <<",">>
                ELSE <<>>)
            \o <<"'text':">> \o ReprStr(sec.text) \o <<"}">>

\* str(content_dict) for content_dict = {'sections': sections}
PyStr(sections) ==
    <<"{", "'sections':", "[">>
        \o Join(<<",">>, [i \in 1..Len(sections) |-> ReprSection(sections[i])])
        \o <<"]", "}">>

\* eval(content), for the texts str() produces, as a scan of the lexemes of
\* content from the i-th on.  at: what is expected next; done: the section
\* dicts read so far; sec: the section dict being read.  The result is
\* [ok |-> FALSE] when eval raises, else the list under 'sections'.
RECURSIVE Scan(_, _, _, _, _)
Scan(t, i, at, done, sec) ==
    IF i > Len(t)
    THEN [ok |-> at = "end", sections |-> done]
    ELSE CASE at = "dict" /\ t[i] = "{" -> Scan(t, i + 1, "key", done, sec)
           [] at = "key" /\ t[i] = "'sections':" -> Scan(t, i + 1, "list", done, sec)
           [] at = "list" /\ t[i] = "[" -> Scan(t, i + 1, "first", done, sec)
           [] at = "first" /\ t[i] = "]" -> Scan(t, i + 1, "close", done, sec)
           [] at \in {"first", "section"} /\ t[i] = "{" ->
                Scan(t, i + 1, "field", done, [has_header |-> FALSE, header |-> <<>>, text |-> <<>>])
           [] at = "field" /\ t[i] = "'header':" ->
                Scan(t, i + 1, "header", done, [sec EXCEPT !.has_header = TRUE])
           [] at = "header" /\ t[i] = "'" -> Scan(t, i + 1, "in_header", done, sec)
           [] at = "in_header" /\ t[i] # "'" ->
                Scan(t, i + 1, "in_header", done, [sec EXCEPT !.header = Append(@, t[i])])
           [] at = "in_header" /\ t[i] = "'" -> Scan(t, i + 1, "comma", done, sec)
           [] at = "comma" /\ t[i] = "," -> Scan(t, i + 1, "text_key", done, sec)
           [] at \in {"field", "text_key"} /\ t[i] = "'text':" ->
                Scan(t, i + 1, "text", done, sec)
           [] at = "text" /\ t[i] = "'" -> Scan(t, i + 1, "in_text", done, sec)
           [] at = "in_text" /\ t[i] # "'" ->
                Scan(t, i + 1, "in_text", done, [sec EXCEPT !.text = Append(@, t[i])])
           [] at = "in_text" /\ t[i] = "'" -> Scan(t, i + 1, "end_section", done, sec)
           [] at = "end_section" /\ t[i] = "}" ->
                Scan(t, i + 1, "next", Append(done, sec), sec)
           [] at = "next" /\ t[i] = "," -> Scan(t, i + 1, "section", done, sec)
           [] at = "next" /\ t[i] = "]" -> Scan(t, i + 1, "close", done, sec)
           [] at = "close" /\ t[i] = "}" -> Scan(t, i + 1, "end", done, sec)
           [] OTHER -> [ok |-> FALSE, sections |-> <<>>]

PyEval(content) == Scan(content, 1, "dict", <<>>, Section(FALSE, <<>>, <<>>))

-----------------------------------------------------------------------------
(* The site the crawler runs against *)

root_url == <<"https://", "www.clarku.edu", "/">>

PageP == root_url \o <<"p">>
PageQ == root_url \o <<"q">>

\* the canonical URLs the site answers
Sites == {root_url, PageP, PageQ}

\* <html><head><title>..</title></head><body>..</body></html>; no <title> when
\* title is <<>>
Page(title, body) ==
    Document(<< El("html",
        << El("head", IF title = <<>> THEN <<>> ELSE <<El("title", <<Txt(title)>>)>>),
           El("body", body) >>) >>)

\* a page with a title, two headed sections (the second without content) and
\* links to itself, to /p, to /p#f, to another domain, a bare fragment and a
\* mailto
HomeDoc ==
    Page(<<"H", "o">>,
         << El("nav", <<Anchor(<<"/">>, <<Txt(<<"n">>)>>)>>),
            El("h1", <<Txt(<<"A">>)>>),
            El("p", <<Txt(<<"a", " ", "b">>), Anchor(<<"/", "p">>, <<Txt(<<"p">>)>>)>>),
            Txt(<<" ">>),
            El("h2", <<Txt(<<"B">>)>>),
            Anchor(<<"/", "p", "#", "f">>, <<>>),
            Anchor(<<"https://", "other.org", "/">>, <<Txt(<<" ">>)>>),
            Anchor(<<"#", "top">>, <<>>),
            Anchor(<<"mailto:", "x">>, <<>>) >>)

\* a page with a title and two paragraphs, no heading; links to /q, to /p#g and
\* to the root as an absolute URL
ListDoc ==
    Page(<<"L">>,
         << El("p", <<Txt(<<"c">>)>>),
            El("p", <<Txt(<<" ", "d", " ">>), Anchor(<<"/", "q">>, <<>>)>>),
            Anchor(<<"/", "p", "#", "g">>, <<>>),
            Anchor(root_url, <<>>) >>)

\* a page without title and without any text; links to /q and to /q#f
BlankDoc ==
    Page(<<>>,
         << El("script", <<Txt(<<"x">>)>>),
            Anchor(<<"/", "q">>, <<>>),
            Anchor(<<"/", "q", "#", "f">>, <<>>) >>)

\* a page without title whose only heading has nothing after it
StubDoc ==
    Page(<<>>, << Div(<<"main">>, <<>>, <<El("h3", <<Txt(<<"S">>)>>)>>),
                  Anchor(<<"/">>, <<>>) >>)

\* a page with a link urlparse raises on
BadLinkDoc ==
    Page(<<"B">>, << El("p", <<Txt(<<"e">>)>>),
                     Anchor(<<"/", "q">>, <<>>),
                     Anchor(<<"http://", "[">>, <<>>) >>)

\* a page with a <main> element and a <div class="content">
MainDoc ==
    Page(<<"M">>,
         << El("main", <<El("p", <<Txt(<<"m", "m">>)>>)>>),
            Div(<<>>, <<"content">>, <<El("p", <<Txt(<<"c">>)>>)>>) >>)

\* a page with an <article> element and a paragraph outside it
ArticleDoc ==
    Page(<<"R">>,
         << El("article", <<El("p", <<Txt(<<"a">>)>>)>>),
            El("p", <<Txt(<<"o">>)>>) >>)

\* a page with a <div id="main"> holding a long text before a
\* <div id="content"> holding a short one
TwoIdDoc ==
    Page(<<"I">>,
         << Div(<<"main">>, <<>>, <<El("p", <<Txt(<<"l", "o", "n", "g">>)>>)>>),
            Div(<<"content">>, <<>>, <<El("p", <<Txt(<<"s">>)>>)>>) >>)

\* a page with two <div class="post ...">, the second with the longer text
TwoClassDoc ==
    Page(<<"C">>,
         << Div(<<>>, <<"post">>, <<El("p", <<Txt(<<"s">>)>>)>>),
            Div(<<>>, <<"wide", "post">>, <<El("p", <<Txt(<<"l", "o">>)>>)>>),
            Anchor(<<"/", "q">>, <<>>),
            Anchor(<<"/", "q">>, <<>>) >>)

\* a page without <title> whose first <h1> is inside a <header>
NoiseTitleDoc ==
    Page(<<>>,
         << El("header", <<El("h1", <<Txt(<<"N">>)>>)>>),
            El("script", <<Txt(<<"x">>)>>),
            El("p", <<Txt(<<"r">>)>>) >>)

\* the text "<script>x</script><p>r t</p>": html.parser adds no <html> or
\* <body>
ScriptDoc ==
    Document(<< El("script", <<Txt(<<"x">>)>>),
                El("p", <<Txt(<<"r", " ", "t">>)>>) >>)

\* two <h1> with paragraphs after each, an <h3> without text between them; a
\* link given twice, a relative path, a javascript: link and an http:// link
IntroDoc ==
    Page(<<"E">>,
         << El("h1", <<Txt(<<"I">>)>>),
            El("p", <<Txt(<<"a">>)>>),
            Txt(<<" ">>),
            El("p", <<Txt(<<"b">>), Anchor(<<"/", "foo">>, <<Txt(<<"f">>)>>)>>),
            El("h3", <<>>),
            El("p", <<Txt(<<"z">>)>>),
            El("h1", <<Txt(<<"D">>)>>),
            El("p", <<Txt(<<"c">>), Anchor(<<"/", "foo">>, <<>>)>>),
            Anchor(<<"foo">>, <<>>),
            Anchor(<<"javascript:", "v">>, <<>>),
            Anchor(<<"http://", "www.clarku.edu", "/", "q">>, <<>>) >>)

\* an <h2> inside a <div> that follows an <h1>
NestedDoc ==
    Page(<<"D">>,
         << El("h1", <<Txt(<<"I">>)>>),
            El("div", <<El("h2", <<Txt(<<"S">>)>>), El("p", <<Txt(<<"x">>)>>)>>),
            El("h1", <<Txt(<<"D">>)>>),
            El("p", <<Txt(<<"y">>)>>) >>)

\* three paragraphs, the second without text, and no heading
ParasDoc ==
    Page(<<"P">>,
         << El("p", <<Txt(<<"a">>)>>),
            El("p", <<Txt(<<" ">>)>>),
            El("div", <<El("p", <<Txt(<<" ", "b", " ">>), El("b", <<Txt(<<"c">>)>>)>>)>>),
            Txt(<<"u">>) >>)

\* a paragraph followed by a heading that has nothing after it
TrailDoc ==
    Page(<<"T">>,
         << El("p", <<Txt(<<"a">>)>>),
            El("h2", <<Txt(<<"B">>)>>) >>)

\* The value html of the code is a response text; the model names each text
\* ("home" is the text of HomeDoc).  "empty" is the empty string, "rejected" a
\* text html.parser rejects (such as "<![").
Bodies == {"home", "list", "blank", "stub", "badlink", "rejected", "empty"}

\* further texts, passed to extract_links and extract_content directly
ExtractBodies ==
    {"mainel", "article", "twoids", "twoclass", "noisetitle", "script", "intro", "nested",
     "paras", "trail"}

Texts == Bodies \cup ExtractBodies

\* the value None that fetch_url returns on an exception
None == "None"

\* what the site can serve under a URL; "gone": every request of the URL ends
\* in an HTTP error
DocNames == Bodies \cup {"gone"}

\* Python's truth value of html: None and the empty string are false
Truthy(html) == html # None /\ html # "empty"

\* whether BeautifulSoup(html, 'html.parser') raises
ParserRejects(html) == html = "rejected"

\* BeautifulSoup(html, 'html.parser') for a text the parser accepts
BeautifulSoup(html) ==
    CASE html = "home" -> HomeDoc
      [] html = "list" -> ListDoc
      [] html = "blank" -> BlankDoc
      [] html = "stub" -> StubDoc
      [] html = "badlink" -> BadLinkDoc
      [] html = "empty" -> Document(<<>>)
      [] html = "mainel" -> MainDoc
      [] html = "article" -> ArticleDoc
      [] html = "twoids" -> TwoIdDoc
      [] html = "twoclass" -> TwoClassDoc
      [] html = "noisetitle" -> NoiseTitleDoc
      [] html = "script" -> ScriptDoc
      [] html = "intro" -> IntroDoc
      [] html = "nested" -> NestedDoc
      [] html = "paras" -> ParasDoc
      [] html = "trail" -> TrailDoc

\* the texts the parser accepts
Parsable == Bodies \ {"rejected"}

-----------------------------------------------------------------------------
(* extract_links and extract_content, on the response text *)

\* whether extract_links(html, base_url) raises: the parser rejects the text,
\* or urlparse raises on base_url or on a resolved href
LinksRaise(html, base_url) ==
    \/ ParserRejects(html)
    \/ UrlparseRaises(base_url)
    \/ HrefRaises(BeautifulSoup(html), get_domain(base_url))

\* the set list(set(links)) is built from
LinkSet(html, base_url) ==
    Range(SameDomainLinks(BeautifulSoup(html), get_domain(base_url)))

\* extract_content(html, url) for a text the parser accepts: [title, content];
\* (None, None) is title <<>> and content <<>>
ContentOf(html) ==
    IF ~Truthy(html) THEN [title |-> <<>>, content |-> <<>>]
    ELSE [title |-> TitleOf(BeautifulSoup(html)),
          content |-> PyStr(SectionsOf(BeautifulSoup(html)))]

\* The results for the texts of the site and the domain of root_url, computed
\* once: a call of a function of the code looks its result up here.
RootDomain == get_domain(root_url)

KnownLinksRaise == [b \in Texts |-> LinksRaise(b, root_url)] @@ <<>>

KnownLinkOrders ==
    [b \in Texts |-> IF LinksRaise(b, root_url) THEN {}
                      ELSE Orderings(LinkSet(b, root_url))] @@ <<>>

KnownContent ==
    [b \in Texts |-> IF ParserRejects(b) THEN ContentOf("empty") ELSE ContentOf(b)] @@ <<>>

\* whether extract_links(html, base_url) raises
ExtractLinksRaises(html, base_url) ==
    IF get_domain(base_url) = RootDomain THEN KnownLinksRaise[html]
    ELSE LinksRaise(html, base_url)

\* extract_links(html, base_url) when it does not raise: list(set(links)) in any
\* of the orders a set of strings can iterate in (the hash of a string differs
\* from process to process)
extract_links(html, base_url) ==
    IF get_domain(base_url) = RootDomain THEN KnownLinkOrders[html]
    ELSE Orderings(LinkSet(html, base_url))

\* whether extract_content(html, url) raises: BeautifulSoup rejects the text
ExtractContentRaises(html) == Truthy(html) /\ ParserRejects(html)

\* extract_content(html, url) when it does not raise
extract_content(html) == KnownContent[html]

\* the largest max_urls of a run of the model (main sets max_urls = 50)
MaxVisitBound == 3

-----------------------------------------------------------------------------
(* fetch_url *)

\* what fetch_url(url) can return: None when requests.get or raise_for_status
\* raises (any request can time out), else response.text; the fragment of a URL
\* is not sent to the server
fetch_url(url) ==
    {None} \cup (IF web[CanonicalURL(url)] = "gone" THEN {}
                 ELSE {web[CanonicalURL(url)]})

-----------------------------------------------------------------------------
(* main *)

\* one call of fetch_url, as fetch_log keeps it
Fetched(url, html, in_loop) == [url |-> url, ok |-> Truthy(html), in_loop |-> in_loop]

\* one URL put in the queue, as queued_log keeps it; level is the number of
\* links followed from root_url to the page the URL was found on, plus 1
Queued(url, level) == [url |-> url, level |-> level]

\* the entries of queued_log for the URLs links, all found at one level
QueuedAll(links, level) == [i \in 1..Len(links) |-> Queued(links[i], level)]

\* the level at which a URL was first put in the queue
Level(url) ==
    queued_log[CHOOSE i \in 1..Len(queued_log) :
                  /\ queued_log[i].url = url
                  /\ \A j \in 1..(i - 1) : queued_log[j].url # url].level

\* what last_step keeps of a step: its kind and the URL it worked on
Step(kind, url) == [kind |-> kind, url |-> url]

\* lines 750-756: the state of main before the first fetch
Start ==
    /\ pc = "start"
    /\ all_entries = <<>>
    /\ visited_urls = {}
    /\ urls_to_visit = <<root_url>>
    /\ counter = 1
    /\ skipped_urls = 0
    /\ empty_content_urls = 0
    /\ fetch_log = <<>>
    /\ queued_log = <<Queued(root_url, 0)>>
    /\ last_step = Step("start", root_url)

\* what ret_links and ret_content hold: whether the function was called,
\* whether it raised, and what it returned; main_content is the element (its
\* path in the document after line 493) extract_content selected
LinksResult(called, raised, links) ==
    [called |-> called, raised |-> raised, links |-> links]

ContentResult(called, raised, title, content, main_content) ==
    [called |-> called, raised |-> raised, title |-> title, content |-> content,
     main_content |-> main_content]

\* no call of extract_links or extract_content is singled out
NoCall ==
    /\ arg_html = None
    /\ arg_base_url = <<>>
    /\ ret_links = LinksResult(FALSE, FALSE, <<>>)
    /\ ret_content = ContentResult(FALSE, FALSE, <<>>, <<>>, <<>>)

Init ==
    /\ web \in [Sites -> DocNames]
    /\ max_urls \in 0..MaxVisitBound
    /\ Start
    /\ run_no = 1
    /\ prev_entries = <<>>
    /\ prev_log = <<>>
    /\ NoCall

\* the variables of main that the lines before the loop leave alone
LoopState == <<all_entries, visited_urls, counter, skipped_urls, empty_content_urls>>

\* the variables no step of a run changes
RunFrame ==
    <<web, max_urls, run_no, prev_entries, prev_log, arg_html, arg_base_url, ret_links,
      ret_content>>

\* SeedLinks with line 765 left out: the links of the root page are not appended
SeedLinks_NoExtend ==
    /\ pc = "start"
    /\ \E html \in fetch_url(root_url) :
        /\ Truthy(html)
        /\ ~ExtractLinksRaises(html, root_url)
        /\ fetch_log' = Append(fetch_log, Fetched(root_url, html, FALSE))
    /\ pc' = "loop"
    /\ last_step' = Step("seed_links", root_url)
    /\ UNCHANGED <<urls_to_visit, queued_log, LoopState, RunFrame>>

\* SeedLinks with extendleft for extend: the links go in front of root_url
SeedLinks_ExtendLeft ==
    /\ pc = "start"
    /\ \E html \in fetch_url(root_url) :
        /\ Truthy(html)
        /\ ~ExtractLinksRaises(html, root_url)
        /\ \E first_level_links \in extract_links(html, root_url) :
              /\ urls_to_visit' = first_level_links \o urls_to_visit
              /\ queued_log' = queued_log \o QueuedAll(first_level_links, 1)
        /\ fetch_log' = Append(fetch_log, Fetched(root_url, html, FALSE))
    /\ pc' = "loop"
    /\ last_step' = Step("seed_links", root_url)
    /\ UNCHANGED <<LoopState, RunFrame>>

\* lines 760-765, html true: the links of the root page are appended to the queue
SeedLinks ==
    /\ pc = "start"
    /\ \E html \in fetch_url(root_url) :
        /\ Truthy(html)
        /\ ~ExtractLinksRaises(html, root_url)
        /\ \E first_level_links \in extract_links(html, root_url) :
              /\ urls_to_visit' = urls_to_visit \o first_level_links
              /\ queued_log' = queued_log \o QueuedAll(first_level_links, 1)
        /\ fetch_log' = Append(fetch_log, Fetched(root_url, html, FALSE))
    /\ pc' = "loop"
    /\ last_step' = Step("seed_links", root_url)
    /\ UNCHANGED <<LoopState, RunFrame>>

\* lines 760-761, html false: nothing is appended
SeedFailed ==
    /\ pc = "start"
    /\ \E html \in fetch_url(root_url) :
        /\ ~Truthy(html)
        /\ fetch_log' = Append(fetch_log, Fetched(root_url, html, FALSE))
    /\ pc' = "loop"
    /\ last_step' = Step("seed_failed", root_url)
    /\ UNCHANGED <<urls_to_visit, queued_log, LoopState, RunFrame>>

\* line 763 raises: extract_links is called outside any try, main ends with
\* the exception
SeedCrash ==
    /\ pc = "start"
    /\ \E html \in fetch_url(root_url) :
        /\ Truthy(html)
        /\ ExtractLinksRaises(html, root_url)
        /\ fetch_log' = Append(fetch_log, Fetched(root_url, html, FALSE))
    /\ pc' = "crashed"
    /\ last_step' = Step("seed_crash", root_url)
    /\ UNCHANGED <<urls_to_visit, queued_log, LoopState, RunFrame>>

\* LoopCondition with <= for <
LoopCondition_OffByOne == urls_to_visit # <<>> /\ Cardinality(visited_urls) <= max_urls

\* line 768: the condition of the while loop
LoopCondition == urls_to_visit # <<>> /\ Cardinality(visited_urls) < max_urls

\* lines 769 and 776
current_url == Head(urls_to_visit)
base_url_NoSplit == current_url

base_url == CanonicalURL(current_url)


\* lines 839-843: the loop over new_links, appending to the queue
RECURSIVE EnqueueNew(_, _, _)
EnqueueNew(queue, new_links, visited) ==
    IF new_links = <<>> THEN queue
    ELSE LET link == Head(new_links)
             base_link == SplitFragment(link)
         IN  IF base_link \notin visited /\ link \notin Range(queue)
             THEN EnqueueNew(Append(queue, link), Tail(new_links), visited)
             ELSE EnqueueNew(queue, Tail(new_links), visited)

\* DiscoverLinks without the test of line 834
DiscoverLinks_Always(queue, html, url, visited) ==
    IF ExtractLinksRaises(html, url) THEN {queue}
    ELSE {EnqueueNew(queue, new_links, visited) : new_links \in extract_links(html, url)}

\* DiscoverLinks with an except branch that puts current_url back in the queue
DiscoverLinks_Requeue(queue, html, url, visited) ==
    IF ~(Cardinality(visited) < max_urls) THEN {queue}
    ELSE IF ExtractLinksRaises(html, url) THEN {Append(queue, url)}
    ELSE {EnqueueNew(queue, new_links, visited) : new_links \in extract_links(html, url)}

\* lines 833-848: the queues link discovery can leave, from the queue without
\* current_url; an exception of extract_links is caught and leaves it as it is
DiscoverLinks(queue, html, url, visited) ==
    IF ~(Cardinality(visited) < max_urls) THEN {queue}
    ELSE IF ExtractLinksRaises(html, url) THEN {queue}
    ELSE {EnqueueNew(queue, new_links, visited) : new_links \in extract_links(html, url)}

\* Entry with the url stripped of its fragment
Entry_Canonical(id, title, url, text) ==
    [id |-> id, title |-> title, url |-> CanonicalURL(url), text |-> text]

\* lines 805-811 and 816-821: the entry dict
Entry(id, title, url, text) == [id |-> id, title |-> title, url |-> url, text |-> text]

UntitledPage == <<"Untitled Page">>

UnableToExtract == <<"Unable to extract content">>

\* Recorded with the two counter += 1 left out
Recorded_NoIncrement(title, content, url) ==
    [entries |-> Append(all_entries,
                        Entry(StrInt(counter), IF title # <<>> THEN title ELSE UntitledPage,
                              url, content)),
     counter |-> counter,
     skipped |-> skipped_urls,
     empty |-> IF AnyText(PyEval(content).sections) THEN empty_content_urls
               ELSE empty_content_urls + 1]

\* lines 795-827 for the title and content extract_content returned:
\* [entries, counter, skipped, empty] after them
Recorded(title, content, url) ==
    LET parsed == PyEval(content)
        has_text == AnyText(parsed.sections)
        shown == IF title # <<>> THEN title ELSE UntitledPage
    IN  IF title # <<>> \/ content # <<>>
        THEN IF parsed.ok
             THEN [entries |-> Append(all_entries, Entry(StrInt(counter), shown, url, content)),
                   counter |-> counter + 1,
                   skipped |-> skipped_urls,
                   empty |-> IF has_text THEN empty_content_urls
                             ELSE empty_content_urls + 1]
             ELSE [entries |-> Append(all_entries,
                                  Entry(StrInt(counter), shown, url,
                                        IF content # <<>> THEN content ELSE UnableToExtract)),
                   counter |-> counter + 1,
                   skipped |-> skipped_urls,
                   empty |-> empty_content_urls]
        ELSE [entries |-> all_entries,
              counter |-> counter,
              skipped |-> skipped_urls + 1,
              empty |-> empty_content_urls]

\* LoopSkipVisited counting the URL as skipped
LoopSkipVisited_Counted ==
    /\ pc = "loop"
    /\ LoopCondition
    /\ (current_url \in visited_urls \/ base_url \in visited_urls)
    /\ urls_to_visit' = Tail(urls_to_visit)
    /\ skipped_urls' = skipped_urls + 1
    /\ last_step' = Step("skip_visited", current_url)
    /\ UNCHANGED <<pc, all_entries, visited_urls, counter, empty_content_urls, fetch_log,
                   queued_log, RunFrame>>

\* lines 769-778: current_url or its base_url is in visited_urls: continue
LoopSkipVisited ==
    /\ pc = "loop"
    /\ LoopCondition
    /\ (current_url \in visited_urls \/ base_url \in visited_urls)
    /\ urls_to_visit' = Tail(urls_to_visit)
    /\ last_step' = Step("skip_visited", current_url)
    /\ UNCHANGED <<pc, LoopState, fetch_log, queued_log, RunFrame>>

\* LoopFetchFailed with line 781 after the fetch: a URL whose fetch fails is not
\* marked visited
LoopFetchFailed_NoMark ==
    /\ pc = "loop"
    /\ LoopCondition
    /\ ~(current_url \in visited_urls \/ base_url \in visited_urls)
    /\ \E html \in fetch_url(current_url) :
        /\ ~Truthy(html)
        /\ fetch_log' = Append(fetch_log, Fetched(current_url, html, TRUE))
    /\ skipped_urls' = skipped_urls + 1
    /\ urls_to_visit' = Tail(urls_to_visit)
    /\ last_step' = Step("fetch_failed", current_url)
    /\ UNCHANGED <<pc, visited_urls, all_entries, counter, empty_content_urls,
                   queued_log, RunFrame>>

\* LoopFetchFailed with line 787 left out: the failure is not counted
LoopFetchFailed_NoCount ==
    /\ pc = "loop"
    /\ LoopCondition
    /\ ~(current_url \in visited_urls \/ base_url \in visited_urls)
    /\ \E html \in fetch_url(current_url) :
        /\ ~Truthy(html)
        /\ fetch_log' = Append(fetch_log, Fetched(current_url, html, TRUE))
    /\ visited_urls' = visited_urls \cup {base_url}
    /\ urls_to_visit' = Tail(urls_to_visit)
    /\ last_step' = Step("fetch_failed", current_url)
    /\ UNCHANGED <<pc, skipped_urls, all_entries, counter, empty_content_urls,
                   queued_log, RunFrame>>

\* LoopFetchFailed with break for continue: the loop ends at the failure
LoopFetchFailed_Break ==
    /\ pc = "loop"
    /\ LoopCondition
    /\ ~(current_url \in visited_urls \/ base_url \in visited_urls)
    /\ \E html \in fetch_url(current_url) :
        /\ ~Truthy(html)
        /\ fetch_log' = Append(fetch_log, Fetched(current_url, html, TRUE))
    /\ visited_urls' = visited_urls \cup {base_url}
    /\ skipped_urls' = skipped_urls + 1
    /\ urls_to_visit' = Tail(urls_to_visit)
    /\ pc' = "done"
    /\ last_step' = Step("fetch_failed", current_url)
    /\ UNCHANGED <<all_entries, counter, empty_content_urls, queued_log, RunFrame>>

\* lines 769-788: the fetch of current_url fails
LoopFetchFailed ==
    /\ pc = "loop"
    /\ LoopCondition
    /\ ~(current_url \in visited_urls \/ base_url \in visited_urls)
    /\ \E html \in fetch_url(current_url) :
        /\ ~Truthy(html)
        /\ fetch_log' = Append(fetch_log, Fetched(current_url, html, TRUE))
    /\ visited_urls' = visited_urls \cup {base_url}
    /\ skipped_urls' = skipped_urls + 1
    /\ urls_to_visit' = Tail(urls_to_visit)
    /\ last_step' = Step("fetch_failed", current_url)
    /\ UNCHANGED <<pc, all_entries, counter, empty_content_urls, queued_log, RunFrame>>

\* lines 769-792 and 828-831: extract_content raises
LoopContentError ==
    /\ pc = "loop"
    /\ LoopCondition
    /\ ~(current_url \in visited_urls \/ base_url \in visited_urls)
    /\ \E html \in fetch_url(current_url) :
        /\ Truthy(html)
        /\ ExtractContentRaises(html)
        /\ fetch_log' = Append(fetch_log, Fetched(current_url, html, TRUE))
    /\ visited_urls' = visited_urls \cup {base_url}
    /\ skipped_urls' = skipped_urls + 1
    /\ urls_to_visit' = Tail(urls_to_visit)
    /\ last_step' = Step("content_error", current_url)
    /\ UNCHANGED <<pc, all_entries, counter, empty_content_urls, queued_log, RunFrame>>

\* lines 769-848: the page is fetched and its content extracted; then the links
LoopPage ==
    /\ pc = "loop"
    /\ LoopCondition
    /\ ~(current_url \in visited_urls \/ base_url \in visited_urls)
    /\ \E html \in fetch_url(current_url) :
        /\ Truthy(html)
        /\ ~ExtractContentRaises(html)
        /\ \E page \in {extract_content(html)} :
           \E after \in {Recorded(page.title, page.content, current_url)} :
              /\ all_entries' = after.entries
              /\ counter' = after.counter
              /\ skipped_urls' = after.skipped
              /\ empty_content_urls' = after.empty
        /\ urls_to_visit' \in DiscoverLinks(Tail(urls_to_visit), html, current_url,
                                            visited_urls \cup {base_url})
        /\ queued_log' = queued_log \o
              QueuedAll(SubSeq(urls_to_visit', Len(urls_to_visit), Len(urls_to_visit')),
                        Level(current_url) + 1)
        /\ fetch_log' = Append(fetch_log, Fetched(current_url, html, TRUE))
    /\ visited_urls' = visited_urls \cup {base_url}
    /\ last_step' = Step("page", current_url)
    /\ UNCHANGED <<pc, RunFrame>>

\* lines 768 and 850-858: the loop condition is false, main reports and ends
LoopExit ==
    /\ pc = "loop"
    /\ ~LoopCondition
    /\ pc' = "done"
    /\ last_step' = Step("exit", <<>>)
    /\ UNCHANGED <<urls_to_visit, LoopState, fetch_log, queued_log, RunFrame>>

\* main() is called once more against the same site
Rerun ==
    /\ pc = "done"
    /\ run_no = 1
    /\ run_no' = 2
    /\ prev_entries' = all_entries
    /\ prev_log' = fetch_log
    /\ pc' = "start"
    /\ all_entries' = <<>>
    /\ visited_urls' = {}
    /\ urls_to_visit' = <<root_url>>
    /\ counter' = 1
    /\ skipped_urls' = 0
    /\ empty_content_urls' = 0
    /\ fetch_log' = <<>>
    /\ queued_log' = <<Queued(root_url, 0)>>
    /\ last_step' = Step("start", root_url)
    /\ UNCHANGED <<web, max_urls, arg_html, arg_base_url, ret_links, ret_content>>

Next ==
    \/ SeedLinks
    \/ SeedFailed
    \/ SeedCrash
    \/ LoopSkipVisited
    \/ LoopFetchFailed
    \/ LoopContentError
    \/ LoopPage
    \/ LoopExit

Spec == Init /\ [][Next]_vars

\* main runs to its end: every step that can be taken is taken (fetch_url
\* returns after its timeout of 10 s at the latest)
SpecLive == Init /\ [][Next]_vars /\ WF_vars(Next)

\* two runs of main, one after the other
NextRerun == Next \/ Rerun

SpecRerun == Init /\ [][NextRerun]_vars

-----------------------------------------------------------------------------
(* extract_links and extract_content called on their own *)

\* the base URLs of the calls: https and http on the domain of root_url, and
\* another domain
ExtractBases ==
    {root_url, <<"http://", "www.clarku.edu", "/", "x">>, <<"https://", "other.org", "/", "x">>}

\* main_content of extract_content(html), as a path of the document without
\* its noise elements
MainContentOf(html) == MainContentPath(Decompose(BeautifulSoup(html), NoiseTags))

KnownMainContent ==
    [b \in Texts |-> IF ParserRejects(b) THEN <<>> ELSE MainContentOf(b)] @@ <<>>

\* the variables of main, which a call on its own leaves alone
MainVars ==
    <<web, max_urls, pc, all_entries, visited_urls, urls_to_visit, counter, skipped_urls,
      empty_content_urls, fetch_log, queued_log, last_step, run_no, prev_entries, prev_log>>

InitExtract ==
    /\ web = [u \in Sites |-> "gone"]
    /\ max_urls = 0
    /\ Start
    /\ run_no = 1
    /\ prev_entries = <<>>
    /\ prev_log = <<>>
    /\ arg_html \in Texts
    /\ arg_base_url \in ExtractBases
    /\ ret_links = LinksResult(FALSE, FALSE, <<>>)
    /\ ret_content = ContentResult(FALSE, FALSE, <<>>, <<>>, <<>>)

\* extract_links(arg_html, arg_base_url) returns or raises
CallExtractLinks ==
    /\ ~ret_links.called
    /\ IF ExtractLinksRaises(arg_html, arg_base_url)
       THEN ret_links' = LinksResult(TRUE, TRUE, <<>>)
       ELSE \E links \in extract_links(arg_html, arg_base_url) :
               ret_links' = LinksResult(TRUE, FALSE, links)
    /\ UNCHANGED <<MainVars, arg_html, arg_base_url, ret_content>>

\* extract_content(arg_html, url) returns or raises
CallExtractContent ==
    /\ ~ret_content.called
    /\ IF ExtractContentRaises(arg_html)
       THEN ret_content' = ContentResult(TRUE, TRUE, <<>>, <<>>, <<>>)
       ELSE \E page \in {extract_content(arg_html)} :
               ret_content' = ContentResult(TRUE, FALSE, page.title, page.content,
                                            KnownMainContent[arg_html])
    /\ UNCHANGED <<MainVars, arg_html, arg_base_url, ret_links>>

NextExtract == CallExtractLinks \/ CallExtractContent

SpecExtract == InitExtract /\ [][NextExtract]_vars

-----------------------------------------------------------------------------
(* Properties *)

\* the positions of fetch_log
Fetches == 1..Len(fetch_log)

\* the fetches made inside the loop: the URLs processed
Processed == {i \in Fetches : fetch_log[i].in_loop}

\* every fetch of the seed so far failed / succeeded
SeedFetchesFailed ==
    \A i \in Fetches : CanonicalURL(fetch_log[i].url) = root_url => ~fetch_log[i].ok

SeedFetchesOK ==
    \A i \in Fetches : CanonicalURL(fetch_log[i].url) = root_url => fetch_log[i].ok

\* C1: no two URLs processed in a run (marked visited and fetched inside the
\* loop) have the same CanonicalURL.
C1_ProcessedCanonicalsDistinct ==
    \A i, j \in Processed :
        i # j => CanonicalURL(fetch_log[i].url) # CanonicalURL(fetch_log[j].url)

\* C1 witness: two URLs were processed, and a queued URL with a fragment was
\* then dropped because its CanonicalURL was visited.
C1_Witness ==
    /\ Cardinality(Processed) >= 2
    /\ last_step.kind = "skip_visited"
    /\ "#" \in Lexemes(last_step.url)
    /\ last_step.url \notin visited_urls

\* C2: in every state of a run the size of visited_urls is at most max_urls.
C2_VisitedWithinBound == Cardinality(visited_urls) <= max_urls

\* C2 witness: the run ended on the bound, with URLs left in the queue.
C2_Witness ==
    /\ pc = "done"
    /\ max_urls >= 2
    /\ Cardinality(visited_urls) = max_urls
    /\ urls_to_visit # <<>>

\* the positions of urls_to_visit' a step appended: after the queue as it was,
\* less the dequeued head inside the loop
Appended ==
    IF pc = "start" THEN (Len(urls_to_visit) + 1)..Len(urls_to_visit')
    ELSE Len(urls_to_visit)..Len(urls_to_visit')

\* C3: every append to the queue, those for the seed page's links included,
\* adds a URL only if its CanonicalURL is not visited and is not the
\* CanonicalURL of a URL already in the queue.
C3_EveryAppendChecked ==
    [][\A k \in Appended :
          /\ CanonicalURL(urls_to_visit'[k]) \notin visited_urls'
          /\ \A m \in 1..(k - 1) :
                CanonicalURL(urls_to_visit'[m]) # CanonicalURL(urls_to_visit'[k])]_vars

\* C4 as claimed: with max_urls = 1 and a seed whose fetches succeed, the run
\* ends with exactly one entry, for the seed, and an empty queue.
C4_OneEntryEmptyQueue ==
    (pc = "done" /\ max_urls = 1 /\ SeedFetchesOK) =>
        /\ Len(all_entries) = 1
        /\ all_entries[1].url = root_url
        /\ urls_to_visit = <<>>

\* C4 amended: with max_urls = 1 and a seed whose fetches succeed, the run ends
\* with exactly one entry, for the seed with id "1", and the queue holds the
\* links extract_links returned for the seed page before the loop, each once.
C4_OneEntryQueueKeepsSeedLinks ==
    (pc = "done" /\ max_urls = 1 /\ SeedFetchesOK) =>
        /\ Len(all_entries) = 1
        /\ all_entries[1].url = root_url
        /\ all_entries[1].id = <<"1">>
        /\ Range(urls_to_visit) = LinkSet(web[root_url], root_url)
        /\ Len(urls_to_visit) = Cardinality(LinkSet(web[root_url], root_url))

\* C4 witness: such a run ended with three links of the seed page in the queue.
C4_Witness ==
    /\ pc = "done"
    /\ max_urls = 1
    /\ SeedFetchesOK
    /\ Len(fetch_log) = 2
    /\ Len(urls_to_visit) = 3

\* C5: when every fetch of the seed fails (max_urls >= 1, as in the code), no
\* entry is recorded, no URL but the seed is ever queued or fetched, and at the
\* end skipped_urls = 1 and the queue is empty.
C5_SeedFailureEndsRun ==
    (max_urls >= 1 /\ SeedFetchesFailed) =>
        /\ all_entries = <<>>
        /\ counter = 1
        /\ Range(urls_to_visit) \subseteq {root_url}
        /\ \A i \in Fetches : fetch_log[i].url = root_url
        /\ pc # "crashed"
        /\ pc = "done" => (skipped_urls = 1 /\ urls_to_visit = <<>>
                           /\ visited_urls = {root_url} /\ Len(fetch_log) = 2)

\* C5 witness: a run ended after both fetches of a seed that is served failed.
C5_Witness ==
    /\ pc = "done"
    /\ max_urls >= 1
    /\ Len(fetch_log) = 2
    /\ SeedFetchesFailed
    /\ web[root_url] = "home"

SameResponses ==
    LET log == prev_log \o fetch_log
    IN  \A i, j \in 1..Len(log) :
            CanonicalURL(log[i].url) = CanonicalURL(log[j].url) => log[i].ok = log[j].ok

\* C7: two runs with the same seed, the same max_urls and the same response for
\* every URL end with the same list of entries.
C7_SameEntriesOnRerun ==
    (run_no = 2 /\ pc = "done" /\ SameResponses) => all_entries = prev_entries

\* a step of the loop whose fetch of the head of the queue failed
FetchFailedStep ==
    /\ pc = "loop"
    /\ Len(fetch_log') = Len(fetch_log) + 1
    /\ ~fetch_log'[Len(fetch_log')].ok

\* C8: an iteration whose fetch fails adds 1 to skipped_urls and the
\* CanonicalURL of the URL to visited_urls, removes the URL from the queue, and
\* leaves the entries, the counter, empty_content_urls and the rest of the
\* queue as they were.
C8_FetchFailureOnlySkips ==
    [][FetchFailedStep =>
          /\ fetch_log'[Len(fetch_log')].url = Head(urls_to_visit)
          /\ skipped_urls' = skipped_urls + 1
          /\ visited_urls' = visited_urls \cup {CanonicalURL(Head(urls_to_visit))}
          /\ urls_to_visit' = Tail(urls_to_visit)
          /\ all_entries' = all_entries
          /\ counter' = counter
          /\ empty_content_urls' = empty_content_urls]_vars

\* C8 witness: a fetch failed in the loop after an entry was recorded and with
\* URLs left in the queue.
C8_Witness ==
    /\ last_step.kind = "fetch_failed"
    /\ Len(all_entries) >= 1
    /\ urls_to_visit # <<>>
    /\ skipped_urls >= 1

\* a step of the loop that fetched a page whose title is empty and whose
\* section texts are all empty
EmptyPageStep ==
    /\ pc = "loop"
    /\ Len(fetch_log') = Len(fetch_log) + 1
    /\ fetch_log'[Len(fetch_log')].ok
    /\ web[CanonicalURL(Head(urls_to_visit))] \in Parsable
    /\ \E page \in {extract_content(web[CanonicalURL(Head(urls_to_visit))])} :
          /\ page.title = <<>>
          /\ ~AnyText(PyEval(page.content).sections)

\* C9: for a fetched page with an empty title and only empty section texts the
\* iteration adds 1 to skipped_urls and appends no entry.
C9_EmptyPageSkipped ==
    [][EmptyPageStep =>
          /\ skipped_urls' = skipped_urls + 1
          /\ all_entries' = all_entries
          /\ counter' = counter]_vars

\* C10: the k-th entry has id str(k), whatever was skipped in between, and
\* counter is the number of entries plus 1.
C10_SequentialIds ==
    /\ counter = Len(all_entries) + 1
    /\ \A k \in 1..Len(all_entries) : all_entries[k].id = StrInt(k)
    /\ Len(all_entries) >= 1 => all_entries[1].id = <<"1">>

\* C10 witness: an entry was appended after a page was skipped and another
\* recorded.
C10_Witness ==
    /\ last_step.kind = "page"
    /\ Len(all_entries) >= 2
    /\ skipped_urls >= 1
    /\ all_entries[2].id = <<"2">>

\* a step of the loop that appended an entry
RecordStep ==
    /\ pc = "loop"
    /\ Len(all_entries') = Len(all_entries) + 1

\* a section whose text is empty or is only the marker of a header without
\* content
EmptyOrMarker(sec) == sec.text = <<>> \/ sec.text = NoContentMarker

\* C11: when a page is recorded, empty_content_urls grows by exactly 1 if every
\* section of the page has an empty text, the "No content in this section"
\* marker counting as empty, and is unchanged otherwise.
C11_EmptyContentCountsMarker ==
    [][RecordStep =>
          LET sections == PyEval(all_entries'[Len(all_entries')].text).sections
          IN  IF \A i \in 1..Len(sections) : EmptyOrMarker(sections[i])
              THEN empty_content_urls' = empty_content_urls + 1
              ELSE empty_content_urls' = empty_content_urls]_vars

\* the position in queued_log at which a URL was first put in the queue
FirstQueued(url) ==
    CHOOSE i \in 1..Len(queued_log) :
        /\ queued_log[i].url = url
        /\ \A j \in 1..(i - 1) : queued_log[j].url # url

\* the pages a page of the site links to, by CanonicalURL
CanonLinks(u) ==
    IF web[u] \in {"gone", "empty"} THEN {}
    ELSE IF KnownLinksRaise[web[u]] THEN {}
    ELSE {CanonicalURL(l) : l \in UNION {Range(o) : o \in KnownLinkOrders[web[u]]}}

\* the number of links on a shortest path from root_url to a page of the site
\* that can be reached from it
LinkDistance(u) ==
    IF u = root_url THEN 0
    ELSE IF u \in CanonLinks(root_url) THEN 1
    ELSE 2

\* no fetch in the loop failed and no processed page made extract_links raise
Undisturbed ==
    \A i \in Processed :
        /\ fetch_log[i].ok
        /\ ~KnownLinksRaise[web[CanonicalURL(fetch_log[i].url)]]

\* C12: URLs are processed in the order in which they were first put in the
\* queue, and the number of links followed from the seed to a processed page
\* never decreases from one processed page to the next; in a run in which no
\* fetch fails that number is the link distance of the page from the seed.
C12_ProcessedInQueueOrder ==
    /\ \A i, j \in Processed :
          i < j => /\ FirstQueued(fetch_log[i].url) < FirstQueued(fetch_log[j].url)
                   /\ Level(fetch_log[i].url) <= Level(fetch_log[j].url)
    /\ Undisturbed =>
          \A i \in Processed :
              Level(fetch_log[i].url) = LinkDistance(CanonicalURL(fetch_log[i].url))

\* C12 witness: three pages were processed, the last one two links away from
\* the seed, and a URL was put in the queue twice.
C12_Witness ==
    /\ Cardinality(Processed) = 3
    /\ Level(fetch_log[Len(fetch_log)].url) = 2
    /\ fetch_log[Len(fetch_log)].in_loop
    /\ \E i, j \in 1..Len(queued_log) : i < j /\ queued_log[i].url = queued_log[j].url

\* C13: every URL in the queue, every URL fetched and the url of every entry
\* has the domain of root_url.
C13_SameDomainOnly ==
    /\ \A i \in 1..Len(urls_to_visit) : get_domain(urls_to_visit[i]) = get_domain(root_url)
    /\ \A i \in Fetches : get_domain(fetch_log[i].url) = get_domain(root_url)
    /\ \A i \in 1..Len(all_entries) : get_domain(all_entries[i].url) = get_domain(root_url)
    /\ \A i \in 1..Len(queued_log) : get_domain(queued_log[i].url) = get_domain(root_url)

\* C13 witness: a page other than the seed that links to another domain was
\* processed and its links were put in the queue.
C13_Witness ==
    /\ last_step.kind = "page"
    /\ last_step.url # root_url
    /\ web[CanonicalURL(last_step.url)] = "home"
    /\ Cardinality(visited_urls) < max_urls
    /\ queued_log[Len(queued_log)].level = 2
    /\ urls_to_visit # <<>>

\* C14: a run ends only in the state after the loop, with the queue empty or
\* max_urls URLs visited: whatever the site serves and whichever fetches and
\* extractions fail, a state in which main can take no further step is that
\* state.
C14_RunEndsInDone ==
    ~(ENABLED Next) =>
        /\ pc = "done"
        /\ (urls_to_visit = <<>> \/ Cardinality(visited_urls) >= max_urls)

\* the hrefs of the <a href> elements of the text of the call
Hrefs == Range(AnchorHrefs(BeautifulSoup(arg_html)))

\* the hrefs that start with '/' or with 'http://' or 'https://'
EligibleHrefs ==
    {h \in Hrefs : StartsWith(h, <<"/">>) \/ \E s \in Schemes : StartsWith(h, <<s>>)}

\* C15: extract_links raises no error whatever the hrefs are, and returns,
\* each once, exactly the resolved URLs of the hrefs that start with '/',
\* 'http://' or 'https://' and have the domain of base_url.
C15_ExactlySameDomainLinks ==
    (ret_links.called /\ ~ParserRejects(arg_html)) =>
        /\ ~ret_links.raised
        /\ \A i, j \in 1..Len(ret_links.links) :
              ret_links.links[i] = ret_links.links[j] => i = j
        /\ Range(ret_links.links) =
              {r \in {ResolvedHref(h, get_domain(arg_base_url)) : h \in EligibleHrefs} :
                  get_domain(r) = get_domain(arg_base_url)}

\* C16: an href that starts with '/' is returned as the scheme of base_url,
\* the domain of base_url and the href.
C16_RelativeKeepsBaseScheme ==
    (ret_links.called /\ ~ret_links.raised) =>
        \A h \in Hrefs :
            StartsWith(h, <<"/">>) =>
                (<<Head(arg_base_url)>> \o get_domain(arg_base_url) \o h)
                    \in Range(ret_links.links)

\* the document of the call of extract_content after its noise elements are
\* removed
CleanSoup == Decompose(BeautifulSoup(arg_html), NoiseTags)

\* extract_content was called on a non-empty text and returned
ContentReturned == ret_content.called /\ ~ret_content.raised /\ Truthy(arg_html)

\* the <div> elements with one of the values of the k-th selector in its
\* attribute
DivsMatching(k) ==
    SelectSeq(FindAll(CleanSoup, {"div"}),
              LAMBDA p : Range(AttrWords(NodeAt(CleanSoup, p), main_content_tags[k].attr))
                            \cap Range(main_content_tags[k].values) # {})

\* the elements each selector of main_content_tags stands for, in the order of
\* the list
SelectorMatches ==
    << DivsMatching(1), FindAll(CleanSoup, {"main"}), FindAll(CleanSoup, {"article"}),
       DivsMatching(4) >>

\* C17: main_content is an element of the first selector, in the order id,
\* main, article, class, that has any match; it is the body, or the whole
\* document when there is no body, only when no selector has a match.
C17_FirstMatchingSelector ==
    ContentReturned =>
        LET region == ret_content.main_content
            hits == SelectSeq(SelectorMatches, LAMBDA m : m # <<>>)
            bodies == FindAll(CleanSoup, {"body"})
        IN  IF hits # <<>> THEN region \in Range(hits[1])
            ELSE IF bodies # <<>> THEN region = bodies[1]
            ELSE region = <<>>

\* the attribute selector that chose main_content: the first of the id and the
\* class selector with a match, 0 when neither has one
AppliedSelector ==
    IF DivsMatching(1) # <<>> THEN 1 ELSE IF DivsMatching(4) # <<>> THEN 4 ELSE 0

\* the length of the text of the element at path p
TextLen(p) == Len(GetText(NodeAt(CleanSoup, p), <<>>))

\* the elements matching the first value of the k-th selector that has a match
FirstValueMatches(k) ==
    LET sel == main_content_tags[k]
        hits == SelectSeq(sel.values,
                          LAMBDA v : FindByAttr(CleanSoup, sel.tag, sel.attr, v) # <<>>)
    IN  FindByAttr(CleanSoup, sel.tag, sel.attr, hits[1])

\* C18 as claimed: main_content chosen by an attribute selector has the longest
\* text of all the elements that match any value of the selector.
C18_LongestOfAllValues ==
    (ContentReturned /\ AppliedSelector # 0) =>
        /\ ret_content.main_content \in Range(DivsMatching(AppliedSelector))
        /\ \A p \in Range(DivsMatching(AppliedSelector)) :
              TextLen(p) <= TextLen(ret_content.main_content)

\* C18 amended: main_content chosen by an attribute selector is the first
\* element with the longest text among the elements that match the first value
\* of the selector, in list order, that has a match.
C18_LongestOfFirstValue ==
    (ContentReturned /\ AppliedSelector # 0) =>
        LET matches == FirstValueMatches(AppliedSelector)
        IN  \E i \in 1..Len(matches) :
               /\ ret_content.main_content = matches[i]
               /\ \A j \in 1..Len(matches) : TextLen(matches[j]) <= TextLen(matches[i])
               /\ \A j \in 1..(i - 1) : TextLen(matches[j]) < TextLen(matches[i])

\* C18 witness: an element matching a later value of the selector has a longer
\* text than main_content.
C18_Witness ==
    /\ ContentReturned
    /\ AppliedSelector # 0
    /\ \E p \in Range(DivsMatching(AppliedSelector)) :
          TextLen(p) > TextLen(ret_content.main_content)

\* the characters of a sequence of strings
CharsOf(strings) == UNION {Lexemes(strings[i]) : i \in 1..Len(strings)}

\* the characters that occur in the text of the call only inside a noise
\* element (white space aside)
NoiseOnlyChars ==
    LET soup == BeautifulSoup(arg_html)
        noise == FindAll(soup, NoiseTags)
        inside == UNION {CharsOf(AllStrings(NodeAt(soup, noise[i]))) : i \in 1..Len(noise)}
    IN  (inside \ CharsOf(AllStrings(CleanSoup))) \ {" "}

\* the characters of what extract_content returned: the title and the header
\* and text of every section
OutputChars ==
    LET sections == PyEval(ret_content.content).sections
    IN  Lexemes(ret_content.title)
            \cup UNION {Lexemes(sections[i].header) \cup Lexemes(sections[i].text) :
                           i \in 1..Len(sections)}

\* C19: text that occurs only inside a noise element is in no section text, in
\* no section header and not in the title extract_content returns.
C19_NoNoiseInOutput ==
    ContentReturned => NoiseOnlyChars \cap OutputChars = {}

\* the element extract_content selected
Region == NodeAt(CleanSoup, ret_content.main_content)

\* the level 1-4 headings of the region with a non-empty text, in document
\* order
Headings ==
    SelectSeq(FindAll(Region, HeadingTags),
              LAMBDA hp : GetText(NodeAt(Region, hp), <<>>) # <<>>)

\* the paths of the siblings that follow the heading at hp, up to the next
\* level 1-4 heading
SiblingsOf(hp) ==
    LET pp == SubSeq(hp, 1, Len(hp) - 1)
        kids == NodeAt(Region, pp).kids
        later == {k \in (hp[Len(hp)] + 1)..Len(kids) : kids[k].name \in HeadingTags}
        stop == IF later = {} THEN Len(kids) + 1
                ELSE CHOOSE k \in later : \A m \in later : k <= m
    IN  [k \in 1..(stop - hp[Len(hp)] - 1) |-> Append(pp, hp[Len(hp)] + k)]

\* the texts of those siblings, those with a text, joined by single spaces
OwnText(hp) ==
    LET texts == [k \in 1..Len(SiblingsOf(hp)) |->
                      GetText(NodeAt(Region, SiblingsOf(hp)[k]), <<>>)]
    IN  Join(<<" ">>, SelectSeq(texts, LAMBDA t : t # <<>>))

\* whether the node at path q is one of the siblings of the heading at hp or
\* lies inside one
Under(q, hp) == \E k \in 1..Len(SiblingsOf(hp)) : StartsWith(q, SiblingsOf(hp)[k])

\* the strings of the region, other than white space, that the section of the
\* heading at hp takes its text from
Attributed(hp) ==
    {q \in Range(Paths(Region)) :
        /\ NodeAt(Region, q).name = TextNode
        /\ Strip(NodeAt(Region, q).text) # <<>>
        /\ Under(q, hp)}

\* the sections extract_content returned
ReturnedSections == PyEval(ret_content.content).sections

\* C20 as claimed: one section per heading with text, in document order, whose
\* text is the space-joined text of the heading's own next siblings up to the
\* next heading; no string is attributed to two sections.
C20_OwnSiblingsOnly ==
    (ContentReturned /\ Headings # <<>>) =>
        /\ Len(ReturnedSections) = Len(Headings)
        /\ \A i \in 1..Len(Headings) :
              /\ ReturnedSections[i].has_header
              /\ ReturnedSections[i].header = GetText(NodeAt(Region, Headings[i]), <<>>)
              /\ ReturnedSections[i].text = OwnText(Headings[i])
        /\ \A i, j \in 1..Len(Headings) :
              i # j => Attributed(Headings[i]) \cap Attributed(Headings[j]) = {}

\* C20 amended: one section per heading with text, in document order, whose
\* text is the space-joined text of the heading's own next siblings up to the
\* next heading, or the marker "No content in this section" when that is
\* empty; a string is attributed to two sections only when one of the two
\* headings lies inside a sibling the other section is read from.
C20_OwnSiblingsOrMarker ==
    (ContentReturned /\ Headings # <<>>) =>
        /\ Len(ReturnedSections) = Len(Headings)
        /\ \A i \in 1..Len(Headings) :
              /\ ReturnedSections[i].has_header
              /\ ReturnedSections[i].header = GetText(NodeAt(Region, Headings[i]), <<>>)
              /\ ReturnedSections[i].text =
                    IF OwnText(Headings[i]) # <<>> THEN OwnText(Headings[i])
                    ELSE NoContentMarker
        /\ \A i, j \in 1..Len(Headings) :
              (i # j /\ Attributed(Headings[i]) \cap Attributed(Headings[j]) # {}) =>
                  (Under(Headings[i], Headings[j]) \/ Under(Headings[j], Headings[i]))

\* C20 witness: the text after a heading that lies inside a sibling of an
\* earlier heading was returned in the sections of both.
C20_Witness ==
    /\ ContentReturned
    /\ Len(Headings) = 3
    /\ \E i, j \in 1..Len(Headings) :
          /\ i < j
          /\ Under(Headings[j], Headings[i])
          /\ Attributed(Headings[j]) # {}
          /\ Attributed(Headings[j]) \subseteq Attributed(Headings[i])

\* the texts of the paragraphs of the region that have a text, in document
\* order, joined by single spaces
ParagraphText ==
    LET ps == FindAll(Region, {"p"})
        texts == [i \in 1..Len(ps) |-> GetText(NodeAt(Region, ps[i]), <<>>)]
    IN  Join(<<" ">>, SelectSeq(texts, LAMBDA t : t # <<>>))

\* C21: for a region without a level 1-4 heading and with a paragraph,
\* extract_content returns exactly one section, without header, whose text is
\* the texts of the region's paragraphs in document order joined by single
\* spaces.
C21_ParagraphFallback ==
    (ContentReturned /\ FindAll(Region, HeadingTags) = <<>> /\ FindAll(Region, {"p"}) # <<>>) =>
        /\ Len(ReturnedSections) = 1
        /\ ~ReturnedSections[1].has_header
        /\ ReturnedSections[1].text = ParagraphText

\* C21 witness: a region with three paragraphs, one of them without text, gave
\* one section with the texts of the other two.
C21_Witness ==
    /\ ContentReturned
    /\ FindAll(Region, HeadingTags) = <<>>
    /\ Len(FindAll(Region, {"p"})) = 3
    /\ ReturnedSections = <<Section(FALSE, <<>>, <<"a", " ", "b", "c">>)>>

\* C22: when every heading with text has no text after it, extract_content
\* returns one section without header that holds the space-joined text of the
\* region's paragraphs, or the text of the whole region when it has no
\* paragraph.
C22_FallbackWhenSectionsEmpty ==
    (ContentReturned /\ Headings # <<>>
        /\ \A i \in 1..Len(Headings) : OwnText(Headings[i]) = <<>>) =>
        \E i \in 1..Len(ReturnedSections) :
            /\ ~ReturnedSections[i].has_header
            /\ ReturnedSections[i].text =
                  IF FindAll(Region, {"p"}) # <<>> THEN ParagraphText
                  ELSE GetText(Region, <<" ">>)
            /\ \A j \in 1..Len(ReturnedSections) :
                  ~ReturnedSections[j].has_header => j = i

\* a step of the loop whose fetch of the head of the queue succeeded
FetchedStep ==
    /\ pc = "loop"
    /\ Len(fetch_log') = Len(fetch_log) + 1
    /\ fetch_log'[Len(fetch_log')].ok

\* the text the site serves for the head of the queue
HeadText == web[CanonicalURL(Head(urls_to_visit))]

\* the links extract_links returns for a text of the site, as a set; none when
\* it raises
PageLinks(html) ==
    IF KnownLinksRaise[html] THEN {}
    ELSE UNION {Range(o) : o \in KnownLinkOrders[html]}

\* whether line 841 lets a link into the queue, after the step's dequeue and
\* visited_urls.add
Wanted(link) ==
    /\ CanonicalURL(link) \notin visited_urls'
    /\ link \notin Range(Tail(urls_to_visit))

\* C23 as claimed: in every iteration that fetched a page, the one that brings
\* visited_urls to max_urls included, every link of the page that is neither
\* visited nor queued is appended to the queue.
C23_LinksAlwaysDiscovered ==
    [][FetchedStep =>
          \A link \in PageLinks(HeadText) : Wanted(link) => link \in Range(urls_to_visit')]_vars

\* C23 amended: an iteration that fetched a page appends the page's links that
\* are neither visited nor queued, in the order extract_links returned them,
\* only when extract_content did not raise and fewer than max_urls URLs are
\* visited after the page was marked; otherwise it only dequeues.
C23_LinksDiscoveredBelowBound ==
    [][FetchedStep =>
          IF \/ ParserRejects(HeadText)
             \/ KnownLinksRaise[HeadText]
             \/ Cardinality(visited_urls') >= max_urls
          THEN urls_to_visit' = Tail(urls_to_visit)
          ELSE \E links \in KnownLinkOrders[HeadText] :
                  urls_to_visit' = Tail(urls_to_visit) \o SelectSeq(links, Wanted)]_vars

\* C23 witness: the page that brought visited_urls to max_urls has a link that
\* is neither visited nor in the queue.
C23_Witness ==
    /\ last_step.kind = "page"
    /\ Cardinality(visited_urls) = max_urls
    /\ \E link \in PageLinks(web[CanonicalURL(last_step.url)]) :
          /\ CanonicalURL(link) \notin visited_urls
          /\ link \notin Range(urls_to_visit)

\* an iteration of the loop whose dequeued URL has its CanonicalURL in
\* visited_urls
VisitedHeadStep ==
    /\ pc = "loop"
    /\ urls_to_visit # <<>>
    /\ Cardinality(visited_urls) < max_urls
    /\ CanonicalURL(Head(urls_to_visit)) \in visited_urls

\* C24: an iteration whose dequeued URL has its CanonicalURL in visited_urls
\* only removes the URL from the queue: no fetch is made, and visited_urls,
\* the entries, the counter, skipped_urls and empty_content_urls are unchanged.
C24_VisitedOnlyDequeued ==
    [][VisitedHeadStep =>
          /\ urls_to_visit' = Tail(urls_to_visit)
          /\ fetch_log' = fetch_log
          /\ visited_urls' = visited_urls
          /\ all_entries' = all_entries
          /\ counter' = counter
          /\ skipped_urls' = skipped_urls
          /\ empty_content_urls' = empty_content_urls
          /\ pc' = "loop"]_vars

\* C24 witness: a URL with a fragment was dropped after its page was recorded,
\* with a visit left and URLs left in the queue.
C24_Witness ==
    /\ last_step.kind = "skip_visited"
    /\ last_step.url # CanonicalURL(last_step.url)
    /\ \E k \in 1..Len(all_entries) :
          CanonicalURL(all_entries[k].url) = CanonicalURL(last_step.url)
    /\ Cardinality(visited_urls) < max_urls
    /\ urls_to_visit # <<>>

\* the URLs that can be in the queue: root_url and the links of the pages
QueueURLs == {root_url} \cup UNION {PageLinks(b) : b \in Bodies}

\* the last iteration ended in a fetch failure or a content-extraction error
AfterFailure == last_step.kind \in {"fetch_failed", "content_error"}

\* the queue holds u, the page of u is not visited and a visit is left
Pending(u) ==
    /\ Cardinality(visited_urls) < max_urls
    /\ \E i \in 1..Len(urls_to_visit) : urls_to_visit[i] = u
    /\ CanonicalURL(u) \notin visited_urls

\* u is the first URL of the queue whose page is not visited, and a visit is
\* left
NextPending(u) ==
    /\ Cardinality(visited_urls) < max_urls
    /\ \E i \in 1..Len(urls_to_visit) :
          /\ urls_to_visit[i] = u
          /\ CanonicalURL(u) \notin visited_urls
          /\ \A j \in 1..(i - 1) : CanonicalURL(urls_to_visit[j]) \in visited_urls

\* u was dequeued, marked visited and fetched
ProcessedURL(u) ==
    /\ CanonicalURL(u) \in visited_urls
    /\ \E i \in Processed : fetch_log[i].url = u

\* C25 as claimed: after a fetch failure or a content-extraction error, every
\* URL of the queue whose page is not visited is subsequently dequeued, marked
\* visited and fetched, if a visit is left at the failure.
C25_EveryPendingProcessed ==
    \A u \in QueueURLs : (AfterFailure /\ Pending(u)) ~> ProcessedURL(u)

\* C25 amended: after a fetch failure or a content-extraction error the run
\* continues with the first URL of the queue whose page is not visited, if a
\* visit is left: that URL is subsequently dequeued, marked visited and fetched.
C25_NextPendingProcessed ==
    \A u \in QueueURLs : (AfterFailure /\ NextPending(u)) ~> ProcessedURL(u)

\* C25 witness: a fetch in the loop failed, the next URL was fetched, and the
\* run ended with a URL in the queue whose page was never visited.
C25_Witness ==
    /\ pc = "done"
    /\ \E i, j \in Processed : j = i + 1 /\ ~fetch_log[i].ok /\ fetch_log[i].url # fetch_log[j].url
    /\ \E k \in 1..Len(urls_to_visit) : CanonicalURL(urls_to_visit[k]) \notin visited_urls


\* a page is fetched in the loop, its content is extracted, link discovery
\* runs for it and extract_links raises
LinkErrorStep ==
    /\ FetchedStep
    /\ last_step'.kind = "page"
    /\ Cardinality(visited_urls') < max_urls
    /\ KnownLinksRaise[HeadText]

\* the record of the page of the step is built
RecordBuilt == KnownContent[HeadText].title # <<>> \/ KnownContent[HeadText].content # <<>>

\* C26: when extract_links raises in the link discovery of a fetched page, the
\* record built for the page stays in the list (and no other entry changes),
\* the queue is the queue without the page, as before link discovery, and the
\* loop goes on.
C26_LinkErrorKeepsRecordAndQueue ==
    [][LinkErrorStep =>
         /\ urls_to_visit' = Tail(urls_to_visit)
         /\ pc' = "loop"
         /\ IF RecordBuilt
            THEN /\ Len(all_entries') = Len(all_entries) + 1
                 /\ SubSeq(all_entries', 1, Len(all_entries)) = all_entries
                 /\ all_entries'[Len(all_entries')].url = Head(urls_to_visit)
                 /\ all_entries'[Len(all_entries')].title = KnownContent[HeadText].title
            ELSE all_entries' = all_entries]_vars

\* C26 witness: the last step processed a page whose link extraction raises
\* while a visit is left; its record is the last entry and a URL waits in the
\* queue.
C26_Witness ==
    /\ pc = "loop"
    /\ last_step.kind = "page"
    /\ KnownLinksRaise[web[CanonicalURL(last_step.url)]]
    /\ Cardinality(visited_urls) < max_urls
    /\ all_entries # <<>>
    /\ all_entries[Len(all_entries)].url = last_step.url
    /\ urls_to_visit # <<>>


\* C27: the url of every entry is the URL as it was dequeued and passed to
\* fetch_url, fragment included; visited_urls holds only URLs without a
\* fragment, each the CanonicalURL of a URL fetched in the loop; and the
\* CanonicalURL of the url of every entry is in visited_urls.
C27_EntryUrlAsDequeued ==
    /\ \A i \in 1..Len(all_entries) :
          /\ \E k \in Processed : /\ fetch_log[k].url = all_entries[i].url
                                  /\ fetch_log[k].ok
                                  /\ \E q \in 1..Len(queued_log) :
                                        queued_log[q].url = all_entries[i].url
          /\ CanonicalURL(all_entries[i].url) \in visited_urls
    /\ \A v \in visited_urls :
          /\ \A j \in 1..Len(v) : v[j] # "#"
          /\ CanonicalURL(v) = v
          /\ \E k \in Processed : CanonicalURL(fetch_log[k].url) = v

\* C27 witness: an entry whose url has a fragment; visited_urls holds the URL
\* without the fragment and not the url of the entry.
C27_Witness ==
    \E i \in 1..Len(all_entries) :
       /\ \E j \in 1..Len(all_entries[i].url) : all_entries[i].url[j] = "#"
       /\ all_entries[i].url \notin visited_urls
       /\ CanonicalURL(all_entries[i].url) \in visited_urls


\* the first fetch made inside the loop
FirstProcessed == CHOOSE i \in Processed : \A j \in Processed : i <= j

\* C28: the first URL dequeued and processed in a run is the seed, before any
\* link found on it (the seed is the first URL marked visited and the first
\* fetched in the loop), and an entry made for the seed is the first entry and
\* has the id "1".
C28_SeedFirst ==
    /\ visited_urls # {} => root_url \in visited_urls
    /\ Processed # {} => fetch_log[FirstProcessed].url = root_url
    /\ last_step.kind = "skip_visited" => Processed # {}
    /\ \A i \in 1..Len(all_entries) :
          /\ CanonicalURL(all_entries[i].url) = root_url =>
                /\ i = 1
                /\ all_entries[i].url = root_url
                /\ all_entries[i].id = <<"1">>
          /\ all_entries[i].url # root_url =>
                \E k \in Processed : k > FirstProcessed /\ fetch_log[k].url = all_entries[i].url

\* C28 witness: the seed made the first entry, with id "1", and a link found
\* on it made the second.
C28_Witness ==
    /\ Len(all_entries) >= 2
    /\ all_entries[1].url = root_url
    /\ all_entries[1].id = <<"1">>
    /\ all_entries[2].url # root_url
    /\ \E q \in 1..Len(queued_log) : queued_log[q].url = all_entries[2].url /\ queued_log[q].level = 1


\* C29: between the iterations of the loop and at the end of the run, the number
\* of entries plus skipped_urls is the number of visited URLs, and
\* empty_content_urls is at most the number of entries.
C29_CountersAddUp ==
    /\ Len(all_entries) + skipped_urls = Cardinality(visited_urls)
    /\ empty_content_urls <= Len(all_entries)

\* C29 witness: a run has ended with an entry, a skipped URL and an entry
\* counted as empty.
C29_Witness ==
    /\ pc = "done"
    /\ last_step.kind = "exit"
    /\ Len(all_entries) >= 1
    /\ skipped_urls >= 1
    /\ empty_content_urls >= 1

=============================================================================
